---- MODULE Spec2Model ----
(***************************************************************************)
(* Context-Meme-Generator: the two MemeGenerator variants.                 *)
(*   catalog variant  src/context_meme.py  (Imgflip catalogue + captioning *)
(*                    API)                                                 *)
(*   feed variant     src/random_meme.py   (r/memes feed + local overlay)  *)
(* Python strings are sequences of one-character strings.  Every external  *)
(* collaborator (completion API, HTTP, feed client, image library) is an   *)
(* input chosen nondeterministically among the outcomes it can produce.    *)
(***************************************************************************)
EXTENDS Integers, Sequences, FiniteSets, TLC

VARIABLES
    variant,    \* which MemeGenerator runs: "catalog" | "feed"
    pc,         \* position inside generate_meme_from_chat
    topic,      \* local `topic`
    meme,       \* catalog: the (meme_id, meme_image_url, meme_name) triple
    meme_text,  \* local `meme_text`
    meme_url,   \* feed: local `meme_url`
    calls,      \* external calls made so far, in order
    out,        \* printed lines, log records, canvas operations, files, in order
    fn,         \* function-level harness: the function under call
    arg,        \* function-level harness: the mocked collaborator outcome
    ret,        \* function-level harness: what the call produced
    called      \* function-level harness: the call has returned

vars == <<variant, pc, topic, meme, meme_text, meme_url, calls, out, fn, arg, ret, called>>

runVars == <<variant, pc, topic, meme, meme_text, meme_url, calls, out>>

unitVars == <<fn, arg, ret, called>>

----------------------------------------------------------------------------
(* Bounds                                                                  *)

\* longest streamed completion (number of fragments) given to a single call
MaxFrags == 3

\* longest streamed completion inside a whole pipeline run
MaxRunFrags == 2

\* longest feed listing / template catalogue enumerated exhaustively
MaxPosts == 2

\* largest image width enumerated
MaxDim == 4

\* largest caption extent (text width / height) enumerated
MaxText == 6

----------------------------------------------------------------------------
(* Strings                                                                 *)

\* Python's None; distinct from every string over Chars
None == <<"<None>">>

Chars == {"a", "A", " ", "\n", "\""}

Whitespace == {" ", "\n"}

Range(s) == {s[i] : i \in 1..Len(s)}

Min(a, b) == IF a <= b THEN a ELSE b

\* bool(v) for v a str or None
Truthy(v) == v # None /\ v # <<>>

\* str.strip(): drop leading and trailing whitespace
RECURSIVE LStrip(_)
LStrip(s) == IF s # <<>> /\ Head(s) \in Whitespace THEN LStrip(Tail(s)) ELSE s

RECURSIVE RStrip(_)
RStrip(s) ==
    IF s # <<>> /\ s[Len(s)] \in Whitespace THEN RStrip(SubSeq(s, 1, Len(s) - 1)) ELSE s

Strip(s) == RStrip(LStrip(s))

\* str.lower()
LowerChar(c) == IF c = "A" THEN "a" ELSE c

Lower(s) == [i \in 1..Len(s) |-> LowerChar(s[i])]

\* str.replace('"', '')
RECURSIVE RemoveQuotes(_)
RemoveQuotes(s) ==
    IF s = <<>> THEN <<>>
    ELSE IF Head(s) = "\"" THEN RemoveQuotes(Tail(s))
    ELSE <<Head(s)>> \o RemoveQuotes(Tail(s))

\* str.endswith(suffix)
EndsWith(s, suffix) ==
    /\ Len(s) >= Len(suffix)
    /\ SubSeq(s, Len(s) - Len(suffix) + 1, Len(s)) = suffix

\* all sequences over S of length at most n
SeqsUpTo(S, n) == UNION {[1..k -> S] : k \in 0..n}

----------------------------------------------------------------------------
(* The completion API: a streamed response is the fragments delivered      *)
(* (delta.content, a str or None) and whether the request or the stream    *)
(* then raised.  frags = <<>> with raises = TRUE is a failed request.      *)

Fragments == {None, <<>>} \cup {<<c>> : c \in Chars}

Completions(n) == [frags : SeqsUpTo(Fragments, n), raises : BOOLEAN]

\* the loop `for chunk in completion: text += chunk.choices[0].delta.content or ""`
RECURSIVE Accumulate(_)
Accumulate(frags) ==
    IF frags = <<>> THEN <<>>
    ELSE (IF Truthy(Head(frags)) THEN Head(frags) ELSE <<>>) \o Accumulate(Tail(frags))

\* one request to the completion API: what it asks for and the text interpolated
\* into its messages (the chat for a topic request, the topic for a caption request)
CreateCall(purpose, about) ==
    [api |-> "chat.completions.create", purpose |-> purpose, about |-> about]

\* self.logger.error(f"...: {str(e)}"): which handler logged, and the failure logged
LogError(where, cause) == [ev |-> "logger.error", val |-> <<where, cause>>]

Event(what, val) == [ev |-> what, val |-> val]

\* "funny"
FUNNY == <<"f", "u", "n", "n", "y">>

\* "Me debugging at 3 AM..."
CatalogFallbackCaption ==
    <<"M", "e", " ", "d", "e", "b", "u", "g", "g", "i", "n", "g", " ", "a", "t", " ", "3", " ", "A", "M", ".", ".", ".">>

\* "When life gives you errors, debug them!"
FeedFallbackCaption ==
    <<"W", "h", "e", "n", " ", "l", "i", "f", "e", " ", "g", "i", "v", "e", "s", " ", "y", "o", "u", " ">>
    \o <<"e", "r", "r", "o", "r", "s", ",", " ", "d", "e", "b", "u", "g", " ", "t", "h", "e", "m", "!">>

\* the opaque chat_context
Chat == <<"c", "h", "a", "t">>

\* extract_topic_from_chat with the except branch returning the text gathered so far
Catalog_extract_topic_keeps_partial(completion) ==
    [ret |-> Lower(Strip(Accumulate(completion.frags))),
     calls |-> <<CreateCall("topic", Chat)>>,
     out |-> IF completion.raises THEN <<LogError("topic", "completion")>> ELSE <<>>]

\* extract_topic_from_chat, catalog variant
Catalog_extract_topic_from_chat(completion) ==
    IF completion.raises
    THEN [ret |-> FUNNY, calls |-> <<CreateCall("topic", Chat)>>, out |-> <<LogError("topic", "completion")>>]
    ELSE [ret |-> Lower(Strip(Accumulate(completion.frags))),
          calls |-> <<CreateCall("topic", Chat)>>, out |-> <<>>]

\* extract_topic_from_chat, feed variant
Feed_extract_topic_from_chat(completion) ==
    IF completion.raises
    THEN [ret |-> FUNNY, calls |-> <<CreateCall("topic", Chat)>>, out |-> <<LogError("topic", "completion")>>]
    ELSE [ret |-> Lower(Strip(Accumulate(completion.frags))),
          calls |-> <<CreateCall("topic", Chat)>>, out |-> <<>>]

\* generate_meme_caption, catalog variant: strip(), then every '"' removed
Catalog_generate_meme_caption(topic_, meme_name, completion) ==
    IF completion.raises
    THEN [ret |-> CatalogFallbackCaption, calls |-> <<CreateCall("caption", topic_)>>,
          out |-> <<LogError("caption", "completion")>>]
    ELSE [ret |-> RemoveQuotes(Strip(Accumulate(completion.frags))),
          calls |-> <<CreateCall("caption", topic_)>>, out |-> <<>>]

\* generate_meme_caption, feed variant: strip() only
Feed_generate_meme_caption(topic_, completion) ==
    IF completion.raises
    THEN [ret |-> FeedFallbackCaption, calls |-> <<CreateCall("caption", topic_)>>,
          out |-> <<LogError("caption", "completion")>>]
    ELSE [ret |-> Strip(Accumulate(completion.frags)),
          calls |-> <<CreateCall("caption", topic_)>>, out |-> <<>>]

----------------------------------------------------------------------------
(* Catalog variant: template catalogue and captioning API                  *)

HTTP_OK == 200

\* the statuses a server answers with: success and two failures
Statuses == {HTTP_OK, 404, 500}

\* catalogue records {id, url, name}; ids are provider-assigned, never empty
Templates ==
    { [id |-> <<"1">>, url |-> <<"x", "1">>, name |-> <<"D">>],
      [id |-> <<"2">>, url |-> <<"x", "2">>, name |-> <<"K">>] }

\* what GET get_memes can do: raise, or answer with a status and a body that is
\* either well-formed (data.memes, possibly empty) or lacks the fields
CatalogResponses ==
    [raises : BOOLEAN, status : Statuses, valid : BOOLEAN,
     memes : SeqsUpTo(Templates, MaxPosts)]

NoTemplate == <<None, None, None>>

\* the catalogue request, with what it did: raised, or answered with a status
GetMemesCall(response) ==
    [api |-> "GET get_memes", raised |-> response.raises, status |-> response.status]

\* fetch_meme_template: the set of results random.choice allows.  No try/except:
\* a raising GET, a body without data.memes and an empty list all propagate.
fetch_meme_template(response) ==
    IF response.raises THEN {[raised |-> TRUE, ret |-> NoTemplate]}
    ELSE IF response.status = HTTP_OK THEN
        IF ~response.valid \/ response.memes = <<>>
        THEN {[raised |-> TRUE, ret |-> NoTemplate]}
        ELSE {[raised |-> FALSE, ret |-> <<m.id, m.url, m.name>>] :
                 m \in Range(response.memes)}
    ELSE {[raised |-> FALSE, ret |-> NoTemplate]}

HostedURLs == {<<"h", "1">>, <<"h", "2">>}

\* what POST caption_image can do: raise, or answer with a status and a JSON body
\* that may lack "success", report failure, or lack data.url (url = None)
CaptionResponses ==
    [raises : BOOLEAN, status : Statuses, has_success : BOOLEAN, success : BOOLEAN,
     url : HostedURLs \cup {None}]

\* the form fields with the caption repeated in the secondary text
CaptionParams_both_lines(meme_id, text) ==
    [template_id |-> meme_id, text0 |-> text, text1 |-> text]

\* the form fields of the captioning POST
CaptionParams(meme_id, text) == [template_id |-> meme_id, text0 |-> text, text1 |-> <<>>]

\* create_meme: one POST, then either the hosted URL or an error is printed.
\* No try/except: a raising POST or a missing field propagates.
create_meme(meme_id, text, response) ==
    LET post == [api |-> "POST caption_image", params |-> CaptionParams(meme_id, text),
                 resp |-> response]
    IN  IF response.raises THEN [raised |-> TRUE, calls |-> <<post>>, out |-> <<>>]
        ELSE IF response.status = HTTP_OK THEN
            IF ~response.has_success
            THEN [raised |-> TRUE, calls |-> <<post>>, out |-> <<>>]
            ELSE IF response.success THEN
                IF response.url = None
                THEN [raised |-> TRUE, calls |-> <<post>>, out |-> <<>>]
                ELSE [raised |-> FALSE, calls |-> <<post>>,
                      out |-> <<Event("print meme_url", response.url)>>]
            ELSE [raised |-> FALSE, calls |-> <<post>>,
                  out |-> <<Event("print error", <<"create_meme">>)>>]
        ELSE [raised |-> FALSE, calls |-> <<post>>,
              out |-> <<Event("print error", <<"create_meme">>)>>]

----------------------------------------------------------------------------
(* Feed variant: r/memes listing and local overlay                         *)

\* subreddit.hot(limit=50)
HotLimit == 50

JPG == <<"j", "p", "g">>

PNG == <<"p", "n", "g">>

\* post URLs: "a.jpg", "a.png", "a.gif", and "ajpg" (ends in jpg, no extension dot)
FeedURLs ==
    { <<"a", ".">> \o JPG, <<"a", ".">> \o PNG, <<"a", ".", "g", "i", "f">>, <<"a">> \o JPG }

Posts == [stickied : BOOLEAN, url : FeedURLs]

\* a listing: the posts the feed holds, and whether fetching them raises
Listings(n) == [posts : SeqsUpTo(Posts, n), raises : BOOLEAN]

\* the posts subreddit.hot(limit=50) yields
Hot(posts) == SubSeq(posts, 1, Min(HotLimit, Len(posts)))

\* the filter of the list comprehension: post.url.endswith(("jpg", "png"))
Keeps(post) == ~post.stickied /\ (EndsWith(post.url, JPG) \/ EndsWith(post.url, PNG))

\* memes = [post for post in subreddit.hot(limit=50) if ...]
Candidates(posts) == SelectSeq(Hot(posts), Keeps)

HotCall == [api |-> "reddit.subreddit.hot"]

\* fetch_meme_from_reddit: the set of results random.choice allows
fetch_meme_from_reddit(listing) ==
    IF listing.raises
    THEN {[ret |-> None, calls |-> <<HotCall>>, out |-> <<LogError("reddit", "listing")>>]}
    ELSE LET memes == Candidates(listing.posts)
         IN  IF memes # <<>>
             THEN {[ret |-> memes[i].url, calls |-> <<HotCall>>, out |-> <<>>] :
                      i \in 1..Len(memes)}
             ELSE {[ret |-> None, calls |-> <<HotCall>>, out |-> <<>>]}

\* y = height - 100
BottomMargin == 100

\* the outline copies are drawn at (x - 2, y - 2) and (x + 2, y + 2)
OutlineOffset == 2

\* text_width, text_height = bbox[2] - bbox[0], bbox[3] - bbox[1]
TextWidth(bbox) == bbox[3] - bbox[1]

TextHeight(bbox) == bbox[4] - bbox[2]

\* the origin with the division truncating toward zero instead of flooring
DrawOrigin_truncating(size, bbox) ==
    LET d == size[1] - TextWidth(bbox)
    IN  <<IF d >= 0 THEN d \div 2 ELSE -((-d) \div 2), size[2] - BottomMargin>>

\* x = (width - text_width) // 2 ; y = height - 100, for size = (width, height)
DrawOrigin(size, bbox) == <<(size[1] - TextWidth(bbox)) \div 2, size[2] - BottomMargin>>

\* the steps with the file saved before the fill copy is drawn
OverlayStages_save_early ==
    <<"download", "decode", "font", "textbbox", "outline1", "outline2", "save",
      "fill", "show">>

\* the steps of overlay_text_on_image that can raise, in program order
OverlayStages ==
    <<"download", "decode", "font", "textbbox", "outline1", "outline2", "fill",
      "save", "show">>

\* what a stage leaves behind when it succeeds
StageEvents(stage, x, y) ==
    CASE stage = "outline1" ->
            <<Event("draw.text", <<x - OutlineOffset, y - OutlineOffset, "black">>)>>
      [] stage = "outline2" ->
            <<Event("draw.text", <<x + OutlineOffset, y + OutlineOffset, "black">>)>>
      [] stage = "fill" -> <<Event("draw.text", <<x, y, "white">>)>>
      [] stage = "save" -> <<Event("img.save", <<"generated_meme.jpg">>)>>
      [] stage = "show" -> <<Event("img.show", <<>>)>>
      [] OTHER -> <<>>

\* the events of stages[from..upto], in order
RECURSIVE RunStages(_, _, _, _, _)
RunStages(stages, from, upto, x, y) ==
    IF from > upto THEN <<>>
    ELSE StageEvents(stages[from], x, y) \o RunStages(stages, from + 1, upto, x, y)

\* the outcomes of the image library and the download: the stage that raises
\* (0: none), the download's status, the image size, the caption's bounding box
OverlayEnvs(sizes, bboxes) ==
    [fail_at : 0..Len(OverlayStages), status : Statuses, size : sizes, bbox : bboxes]

\* the download, with what it did: raised, or answered with a status
ImageCall(image_url, env) ==
    [api |-> "GET image", url |-> image_url, raised |-> env.fail_at = 1,
     status |-> env.status]

\* overlay_text_on_image: the whole body is inside try/except Exception
overlay_text_on_image(image_url, text, env) ==
    LET o == DrawOrigin(env.size, env.bbox)
        n == Len(OverlayStages)
    IN  IF env.fail_at = 1
        THEN [calls |-> <<ImageCall(image_url, env)>>, out |-> <<LogError("overlay", OverlayStages[1])>>]
        ELSE IF env.status # HTTP_OK
        THEN [calls |-> <<ImageCall(image_url, env)>>,
              out |-> <<Event("print error", <<"overlay">>)>>]
        ELSE IF env.fail_at # 0
        THEN [calls |-> <<ImageCall(image_url, env)>>,
              out |-> RunStages(OverlayStages, 1, env.fail_at - 1, o[1], o[2])
                      \o <<LogError("overlay", OverlayStages[env.fail_at])>>]
        ELSE [calls |-> <<ImageCall(image_url, env)>>,
              out |-> RunStages(OverlayStages, 1, n, o[1], o[2])
                      \o <<Event("print success", <<>>)>>]

----------------------------------------------------------------------------
(* generate_meme_from_chat, both variants: one action per stage            *)

Terminal == {"returned", "raised"}

\* the catalog run going on to the caption whatever fetch_meme_template returned
Catalog_after_fetch_continues(meme_id) ==
    [pc |-> "generate_meme_caption", out |-> <<>>]

\* catalog variant, after fetch_meme_template returned: `if not meme_id: print; return`
Catalog_after_fetch(meme_id) ==
    IF ~Truthy(meme_id)
    THEN [pc |-> "returned", out |-> <<Event("print error", <<"fetch_meme_template">>)>>]
    ELSE [pc |-> "generate_meme_caption", out |-> <<>>]

\* the feed run printing the URL it found and returning without rendering it
Feed_after_fetch_skips_overlay(url) ==
    IF Truthy(url)
    THEN [pc |-> "returned", out |-> <<Event("print reddit url", url)>>]
    ELSE [pc |-> "returned", out |-> <<Event("print error", <<"fetch_meme_from_reddit">>)>>]

\* feed variant, after fetch_meme_from_reddit returned: `if meme_url: ... else: print`
Feed_after_fetch(url) ==
    IF Truthy(url)
    THEN [pc |-> "overlay_text_on_image", out |-> <<Event("print reddit url", url)>>]
    ELSE [pc |-> "returned", out |-> <<Event("print error", <<"fetch_meme_from_reddit">>)>>]

\* image sizes and caption boxes met in a whole run
RunSizes == {<<1, BottomMargin - 1>>, <<MaxDim, BottomMargin + 1>>}

RunBBoxes == {<<0, 0, 1, 1>>, <<1, 1, 1 + MaxText, 2>>}

Init ==
    /\ variant \in {"catalog", "feed"}
    /\ pc = "start"
    /\ topic = <<>>
    /\ meme = NoTemplate
    /\ meme_text = <<>>
    /\ meme_url = None
    /\ calls = <<>>
    /\ out = <<>>
    /\ fn = "none" /\ arg = <<>> /\ ret = <<>> /\ called = FALSE

C_ExtractTopic ==
    /\ variant = "catalog" /\ pc = "start"
    /\ \E completion \in Completions(MaxRunFrags) :
         LET r == Catalog_extract_topic_from_chat(completion)
         IN  /\ topic' = r.ret
             /\ calls' = calls \o r.calls
             /\ out' = out \o r.out
    /\ pc' = "fetch_meme_template"
    /\ UNCHANGED <<variant, meme, meme_text, meme_url, unitVars>>

C_FetchTemplate ==
    /\ variant = "catalog" /\ pc = "fetch_meme_template"
    /\ \E response \in CatalogResponses : \E r \in fetch_meme_template(response) :
         /\ calls' = calls \o <<GetMemesCall(response)>>
         /\ IF r.raised
            THEN pc' = "raised" /\ UNCHANGED <<meme, out>>
            ELSE /\ meme' = r.ret
                 /\ pc' = Catalog_after_fetch(r.ret[1]).pc
                 /\ out' = out \o Catalog_after_fetch(r.ret[1]).out
    /\ UNCHANGED <<variant, topic, meme_text, meme_url, unitVars>>

C_GenerateCaption ==
    /\ variant = "catalog" /\ pc = "generate_meme_caption"
    /\ \E completion \in Completions(MaxRunFrags) :
         LET r == Catalog_generate_meme_caption(topic, meme[3], completion)
         IN  /\ meme_text' = r.ret
             /\ calls' = calls \o r.calls
             /\ out' = out \o r.out \o <<Event("print topic", topic),
                                        Event("print text", r.ret),
                                        Event("print template", <<meme[3], meme[2]>>)>>
    /\ pc' = "create_meme"
    /\ UNCHANGED <<variant, topic, meme, meme_url, unitVars>>

C_CreateMeme ==
    /\ variant = "catalog" /\ pc = "create_meme"
    /\ \E response \in CaptionResponses :
         LET r == create_meme(meme[1], meme_text, response)
         IN  /\ calls' = calls \o r.calls
             /\ out' = out \o r.out
             /\ pc' = IF r.raised THEN "raised" ELSE "returned"
    /\ UNCHANGED <<variant, topic, meme, meme_text, meme_url, unitVars>>

F_ExtractTopic ==
    /\ variant = "feed" /\ pc = "start"
    /\ \E completion \in Completions(MaxRunFrags) :
         LET r == Feed_extract_topic_from_chat(completion)
         IN  /\ topic' = r.ret
             /\ calls' = calls \o r.calls
             /\ out' = out \o r.out
    /\ pc' = "generate_meme_caption"
    /\ UNCHANGED <<variant, meme, meme_text, meme_url, unitVars>>

F_GenerateCaption ==
    /\ variant = "feed" /\ pc = "generate_meme_caption"
    /\ \E completion \in Completions(MaxRunFrags) :
         LET r == Feed_generate_meme_caption(topic, completion)
         IN  /\ meme_text' = r.ret
             /\ calls' = calls \o r.calls
             /\ out' = out \o r.out
    /\ pc' = "fetch_meme_from_reddit"
    /\ UNCHANGED <<variant, topic, meme, meme_url, unitVars>>

F_FetchReddit ==
    /\ variant = "feed" /\ pc = "fetch_meme_from_reddit"
    /\ \E listing \in Listings(MaxPosts) : \E r \in fetch_meme_from_reddit(listing) :
         /\ meme_url' = r.ret
         /\ calls' = calls \o r.calls
         /\ out' = out \o r.out \o Feed_after_fetch(r.ret).out
         /\ pc' = Feed_after_fetch(r.ret).pc
    /\ UNCHANGED <<variant, topic, meme, meme_text, unitVars>>

F_Overlay ==
    /\ variant = "feed" /\ pc = "overlay_text_on_image"
    /\ \E env \in OverlayEnvs(RunSizes, RunBBoxes) :
         LET r == overlay_text_on_image(meme_url, meme_text, env)
         IN  /\ calls' = calls \o r.calls
             /\ out' = out \o r.out
    /\ pc' = "returned"
    /\ UNCHANGED <<variant, topic, meme, meme_text, meme_url, unitVars>>

Next ==
    \/ C_ExtractTopic
    \/ C_FetchTemplate
    \/ C_GenerateCaption
    \/ C_CreateMeme
    \/ F_ExtractTopic
    \/ F_GenerateCaption
    \/ F_FetchReddit
    \/ F_Overlay

Spec == Init /\ [][Next]_vars

----------------------------------------------------------------------------
(* Function-level harness: one function is called once on a mocked          *)
(* collaborator outcome drawn from a bounded set                           *)

\* the feed of the pool-size scenario: 50 posts, 10 stickied, 20 others whose URL
\* lacks the suffix, 20 eligible
ExampleFeed ==
    [i \in 1..HotLimit |->
        IF i <= 10 THEN [stickied |-> TRUE, url |-> <<"a", ".">> \o JPG]
        ELSE IF i <= 30 THEN [stickied |-> FALSE, url |-> <<"a", ".", "g", "i", "f">>]
        ELSE [stickied |-> FALSE, url |-> <<"a", ".">> \o PNG]]

\* a feed longer than the window: only the posts past the 50th are eligible
LongFeed ==
    [i \in 1..(HotLimit + 2) |->
        IF i <= HotLimit THEN [stickied |-> TRUE, url |-> <<"a", ".">> \o JPG]
        ELSE [stickied |-> FALSE, url |-> <<"a", ".">> \o JPG]]

UnitListings ==
    Listings(MaxPosts) \cup [posts : {ExampleFeed, LongFeed}, raises : BOOLEAN]

UnitSizes == (1..MaxDim) \X {BottomMargin - 1, BottomMargin, BottomMargin + 1}

UnitBBoxes ==
    {<<l, t, l + w, t + h>> : l \in 0..1, t \in 0..1, w \in 0..MaxText, h \in 0..MaxText}

CompletionFns ==
    {"Catalog_extract_topic_from_chat", "Feed_extract_topic_from_chat",
     "Catalog_generate_meme_caption", "Feed_generate_meme_caption"}

UnitInit ==
    /\ variant = "none" /\ pc = "idle" /\ topic = <<>> /\ meme = NoTemplate
    /\ meme_text = <<>> /\ meme_url = None /\ calls = <<>> /\ out = <<>>
    /\ ret = <<>> /\ called = FALSE
    /\ \/ fn \in CompletionFns /\ arg \in Completions(MaxFrags)
       \/ fn = "fetch_meme_from_reddit" /\ arg \in UnitListings
       \/ fn = "DrawOrigin" /\ arg \in [size : UnitSizes, bbox : UnitBBoxes]

U_CatalogTopic ==
    /\ fn = "Catalog_extract_topic_from_chat" /\ ~called
    /\ ret' = Catalog_extract_topic_from_chat(arg)
    /\ called' = TRUE
    /\ UNCHANGED <<runVars, fn, arg>>

U_FeedTopic ==
    /\ fn = "Feed_extract_topic_from_chat" /\ ~called
    /\ ret' = Feed_extract_topic_from_chat(arg)
    /\ called' = TRUE
    /\ UNCHANGED <<runVars, fn, arg>>

U_CatalogCaption ==
    /\ fn = "Catalog_generate_meme_caption" /\ ~called
    /\ ret' = Catalog_generate_meme_caption(FUNNY, None, arg)
    /\ called' = TRUE
    /\ UNCHANGED <<runVars, fn, arg>>

U_FeedCaption ==
    /\ fn = "Feed_generate_meme_caption" /\ ~called
    /\ ret' = Feed_generate_meme_caption(FUNNY, arg)
    /\ called' = TRUE
    /\ UNCHANGED <<runVars, fn, arg>>

U_FetchReddit ==
    /\ fn = "fetch_meme_from_reddit" /\ ~called
    /\ ret' \in fetch_meme_from_reddit(arg)
    /\ called' = TRUE
    /\ UNCHANGED <<runVars, fn, arg>>

U_DrawOrigin ==
    /\ fn = "DrawOrigin" /\ ~called
    /\ ret' = DrawOrigin(arg.size, arg.bbox)
    /\ called' = TRUE
    /\ UNCHANGED <<runVars, fn, arg>>

UnitNext ==
    \/ U_CatalogTopic
    \/ U_FeedTopic
    \/ U_CatalogCaption
    \/ U_FeedCaption
    \/ U_FetchReddit
    \/ U_DrawOrigin

UnitSpec == UnitInit /\ [][UnitNext]_vars

----------------------------------------------------------------------------
(* Claims about single functions, checked under UnitSpec                   *)

TopicFns == {"Catalog_extract_topic_from_chat", "Feed_extract_topic_from_chat"}

CaptionFns == {"Catalog_generate_meme_caption", "Feed_generate_meme_caption"}

\* C4: for every outcome of the completion call, extract_topic_from_chat returns a
\* string that is non-empty, entirely lowercase and free of newline characters.
C4_TopicWellFormed ==
    (called /\ fn \in TopicFns) =>
        /\ ret.ret # <<>>
        /\ "A" \notin Range(ret.ret)
        /\ "\n" \notin Range(ret.ret)

\* the fallback each function returns from its except branch
FallbackOf(f) ==
    CASE f \in TopicFns -> <<"f", "u", "n", "n", "y">>
      [] f = "Catalog_generate_meme_caption" ->
            <<"M", "e", " ", "d", "e", "b", "u", "g", "g", "i", "n", "g", " ",
              "a", "t", " ", "3", " ", "A", "M", ".", ".", ".">>
      [] f = "Feed_generate_meme_caption" ->
            <<"W", "h", "e", "n", " ", "l", "i", "f", "e", " ", "g", "i", "v", "e", "s",
              " ", "y", "o", "u", " ", "e", "r", "r", "o", "r", "s", ",", " ",
              "d", "e", "b", "u", "g", " ", "t", "h", "e", "m", "!">>

\* C5: when the completion call raises, at the request or part-way through the
\* stream, extract_topic_from_chat returns exactly "funny" and generate_meme_caption
\* its variant's fallback caption; the partial text is discarded and exactly one
\* completion request was issued (no retry).
C5_FallbackOnRaise ==
    (called /\ fn \in CompletionFns /\ arg.raises) =>
        /\ ret.ret = FallbackOf(fn)
        /\ Len(ret.calls) = 1
        /\ ret.calls[1].api = "chat.completions.create"

\* C5 witness: a topic call whose stream raised after text had been concatenated
C5_Witness ==
    /\ called /\ fn = "Catalog_extract_topic_from_chat"
    /\ arg.raises /\ Strip(Accumulate(arg.frags)) # <<>>

\* C6: in both variants the string returned by generate_meme_caption contains no
\* double-quote character.
C6_NoQuoteInCaption ==
    (called /\ fn \in CaptionFns) => "\"" \notin Range(ret.ret)

DotJPG == <<".", "j", "p", "g">>

DotPNG == <<".", "p", "n", "g">>

\* the pool as the claim describes it: positions among the first 50 posts that are not
\* stickied and whose URL ends in .jpg or .png
DottedPool(posts) ==
    {i \in 1..Min(50, Len(posts)) :
        /\ ~posts[i].stickied
        /\ EndsWith(posts[i].url, DotJPG) \/ EndsWith(posts[i].url, DotPNG)}

\* C7: the pool is exactly the fetched posts (at most 50) that are not stickied and end
\* in .jpg / .png; a URL of the pool is returned when it is non-empty, None exactly
\* when it is empty or the fetch raises; the 50/10/20 feed has a pool of 20.
C7_PoolIsDottedImages ==
    (called /\ fn = "fetch_meme_from_reddit") =>
        /\ ret.ret # None => \E i \in DottedPool(arg.posts) : arg.posts[i].url = ret.ret
        /\ ret.ret = None <=> (DottedPool(arg.posts) = {} \/ arg.raises)
        /\ Len(Candidates(arg.posts)) = Cardinality(DottedPool(arg.posts))
        /\ arg.posts = ExampleFeed => Len(Candidates(arg.posts)) = 20

\* C9: the draw origin is x = floor((width - (r - l)) / 2), negative when the caption
\* is wider than the image, and y = height - 100 whatever the caption's height.
C9_DrawOrigin ==
    (called /\ fn = "DrawOrigin") =>
        LET width == arg.size[1]
            height == arg.size[2]
            tw == arg.bbox[3] - arg.bbox[1]
        IN  /\ 2 * ret[1] <= width - tw
            /\ width - tw < 2 * ret[1] + 2
            /\ tw > width => ret[1] < 0
            /\ ret[2] = height - 100

\* C9 witness: a caption wider than the image by an odd number of pixels, with a
\* caption height other than zero
C9_Witness ==
    /\ called /\ fn = "DrawOrigin"
    /\ (arg.bbox[3] - arg.bbox[1]) - arg.size[1] = 3
    /\ arg.bbox[4] - arg.bbox[2] > 0
    /\ ret[1] = -2

----------------------------------------------------------------------------
(* Claims about whole runs, checked under Spec                             *)

\* what an external call is: the purpose of a completion request, else the API
CallTag(c) == IF c.api = "chat.completions.create" THEN c.purpose ELSE c.api

CallTrace == [i \in 1..Len(calls) |-> CallTag(calls[i])]

IsPrefix(s, t) == Len(s) <= Len(t) /\ s = SubSeq(t, 1, Len(s))

Positions(evname) == {i \in 1..Len(out) : out[i].ev = evname}

Printed(evname, val) == \E i \in Positions(evname) : out[i].val = val

CatalogOrder == <<"topic", "GET get_memes", "caption", "POST caption_image">>

FeedOrder == <<"topic", "caption", "reddit.subreddit.hot", "GET image">>

\* the image source gave the run a template / an image
SourceYielded ==
    \/ variant = "catalog" /\ Truthy(meme[1])
    \/ variant = "feed" /\ Truthy(meme_url)

\* a hosted URL was printed, or the image file was written
Rendered == Positions("print meme_url") # {} \/ Positions("img.save") # {}

\* C1: generate_meme_from_chat never lets an exception reach its caller, whatever
\* the external calls do.
C1_NoExceptionReachesCaller == pc # "raised"

\* C2: the catalog run calls topic extraction, then the template fetch, and after a
\* non-200 template fetch reports failure and makes no caption and no captioning
\* call; the feed run makes the topic call and then the caption call before the feed
\* fetch, so both completion calls precede the report that no image exists.
C2_CallOrder ==
    /\ variant = "catalog" =>
        /\ IsPrefix(CallTrace, CatalogOrder)
        /\ pc \in Terminal => Len(calls) >= 2
        /\ (Len(calls) >= 2 /\ ~calls[2].raised /\ calls[2].status # 200) =>
              /\ pc = "returned"
              /\ CallTrace = <<"topic", "GET get_memes">>
              /\ Printed("print error", <<"fetch_meme_template">>)
    /\ variant = "feed" =>
        /\ IsPrefix(CallTrace, FeedOrder)
        /\ pc \in Terminal => Len(calls) >= 3
        /\ Printed("print error", <<"fetch_meme_from_reddit">>) =>
              CallTrace = <<"topic", "caption", "reddit.subreddit.hot">>

\* C2 witness: a catalog run that ended after a non-200 template fetch
C2_Witness ==
    /\ variant = "catalog" /\ pc = "returned"
    /\ Len(calls) = 2 /\ ~calls[2].raised /\ calls[2].status = 500

\* C3 as stated: a run whose image source yielded a template / image ends rendered
\* (read on the runs that return normally).
C3_OnlyImageSourceFails == (pc = "returned" /\ SourceYielded) => Rendered

\* C3 amended: each variant follows its own stage order; a completion stage never
\* ends the run; a run that ends without a rendered meme ended at image-source
\* resolution or at the render step; and whenever the image source yields, the
\* render step is attempted.
C3_FailsOnlyAtSourceOrRender ==
    /\ IsPrefix(CallTrace, IF variant = "catalog" THEN CatalogOrder ELSE FeedOrder)
    /\ (calls # <<>> /\ calls[Len(calls)].api = "chat.completions.create") =>
          pc \notin Terminal
    /\ (pc \in Terminal /\ ~Rendered) =>
          CallTrace[Len(calls)] \in
              {"GET get_memes", "reddit.subreddit.hot", "POST caption_image", "GET image"}
    /\ (pc \in Terminal /\ SourceYielded) =>
          CallTrace[Len(calls)] \in {"POST caption_image", "GET image"}

\* C3 witness: a feed run that found an image, attempted the download and returned
\* with nothing rendered
C3_Witness ==
    /\ variant = "feed" /\ pc = "returned" /\ SourceYielded /\ ~Rendered
    /\ calls[Len(calls)].api = "GET image"

\* C8: after a successful template fetch the catalog run makes exactly one
\* captioning POST carrying the chosen template's id, the generated caption and an
\* empty secondary text; a 200 / success answer makes the hosted URL, unmodified, the
\* final output; a bad status or success false prints an error, with no second POST
\* and no local rendering.
C8_CaptionPost ==
    (variant = "catalog" /\ pc \in Terminal /\ SourceYielded) =>
        LET post == calls[Len(calls)]
        IN  /\ Cardinality({i \in 1..Len(calls) : calls[i].api = "POST caption_image"}) = 1
            /\ post.api = "POST caption_image"
            /\ \E t \in Templates : post.params.template_id = t.id /\ meme[1] = t.id
            /\ post.params.text0 = meme_text
            /\ Printed("print text", post.params.text0)
            /\ post.params.text1 = <<>>
            /\ ( /\ ~post.resp.raises /\ post.resp.status = 200
                 /\ post.resp.has_success /\ post.resp.success
                 /\ post.resp.url # None ) =>
                    /\ pc = "returned"
                    /\ out[Len(out)] = [ev |-> "print meme_url", val |-> post.resp.url]
            /\ ( /\ ~post.resp.raises
                 /\ \/ post.resp.status # 200
                    \/ post.resp.has_success /\ ~post.resp.success ) =>
                    /\ pc = "returned"
                    /\ out[Len(out)].ev = "print error"
                    /\ Positions("print meme_url") = {}
                    /\ Positions("draw.text") = {} /\ Positions("img.save") = {}

\* C8 witness: a catalog run that ended by printing the hosted URL
C8_Witness ==
    /\ variant = "catalog" /\ pc = "returned" /\ out # <<>>
    /\ out[Len(out)].ev = "print meme_url"

\* the overlay's stages the claim lists: download, decode, font load, draw
EarlyStages == {"download", "decode", "font", "textbbox", "outline1", "outline2", "fill"}

====
